---- MODULE Spec2Model ----
(***************************************************************************)
(* Model of verification/verify_taskpane.py: one function run() that       *)
(* drives a headless Chromium through Playwright's synchronous API, and    *)
(* the module-level entry point that calls it.                             *)
(*                                                                         *)
(* Every statement of run() is one action; pc is the statement about to    *)
(* execute.  The environment the script reads (working directory, browser  *)
(* runtime, the target file and the DOM element #baseUrlInput in it) is    *)
(* chosen when the process is invoked and is constant during the run.      *)
(* A Playwright call either returns or raises; run() has no try/except, so *)
(* a raised exception unwinds straight to the end of the with block and    *)
(* from there out of the process.                                          *)
(***************************************************************************)
EXTENDS Integers, Sequences, FiniteSets, TLC

VARIABLES
    \* ---- the environment of one invocation (inputs)
    workingDirectory,   \* what os.getcwd() returns
    runtimeAvailable,   \* whether chromium can be launched
    fileExists,         \* whether <cwd>/src/taskpane/taskpane.html exists
    dom,                \* state of #baseUrlInput in that file
    domValue,           \* the value the element has when the file is loaded
    \* ---- the script
    pc,                 \* statement of run() about to execute
    cwd,                \* local variable cwd
    filepath,           \* local variable filepath
    base_url_input,     \* local variable base_url_input (a locator)
    visible,            \* what base_url_input.is_visible() returned
    exc,                \* the exception in flight, NoExc when none
    raisedAt,           \* the statement that raised it
    \* ---- the world the script acts on
    driver,             \* Playwright driver process: "off", "running", "stopped"
    browser,            \* browser process: "none", "open", "closed", "killed"
    page,               \* "none", "blank", "loaded"
    elemValue,          \* current value of the element in the loaded page
    navigations,        \* every URL handed to page.goto, in order
    fillAttempts,       \* number of calls of base_url_input.fill in this run
    screenshotFile,     \* verification/taskpane_screenshot.png on disk
    stdout,             \* lines written by the script's print calls
    stderr,             \* lines written by the interpreter (traceback)
    exitCode,           \* process exit status, NoExit while running
    trace,              \* statements executed so far in this run, in order
    runs                \* number of invocations so far

env  == <<workingDirectory, runtimeAvailable, fileExists, dom, domValue>>
locs == <<cwd, filepath, base_url_input, visible>>
vars == <<workingDirectory, runtimeAvailable, fileExists, dom, domValue,
          pc, cwd, filepath, base_url_input, visible, exc, raisedAt,
          driver, browser, page, elemValue, navigations, fillAttempts,
          screenshotFile, stdout, stderr, exitCode, trace, runs>>

\* ------------------------------------------------------------------ bounds
\* Number of successive invocations of the script that are explored.
MaxRuns == 2

\* ------------------------------------------------------- program constants
TARGET_RELATIVE == "/src/taskpane/taskpane.html"
SELECTOR        == "#baseUrlInput"
FILL_VALUE      == "https://api.gptbots.ai/v1"
SCREENSHOT_PATH == "verification/taskpane_screenshot.png"
MSG_VISIBLE     == "Base URL input is visible"
MSG_NOT_VISIBLE == "Base URL input NOT visible"

\* ------------------------------------------------------------ input domains
\* Working directories: the root, an ordinary checkout, one with a space and
\* one with a '#', which a URL parser reads as the start of the fragment.
WorkingDirectories ==
    {"/", "/home/dev/excel-ai-gemini-addin", "/tmp/my addin", "/tmp/build#7"}

\* #baseUrlInput in the target file:
\*   absent    no element has the id
\*   hidden    one element, not rendered (display:none, zero size, ...)
\*   visible   one rendered, enabled, editable text input
\*   readonly  one rendered element that cannot be filled (disabled or
\*             readonly input, or an element that is not an input at all)
\*   duplicate more than one element carries the id
DomStates == {"absent", "hidden", "visible", "readonly", "duplicate"}

NoValue == "<no element>"
InitialValues == {"", "https://old.example/v0"}

NoExc  == "none"
NoExit == -1
NoFile == [exists |-> FALSE]
None   == "None"

\* The file system holds the target file (when fileExists) and nothing else
\* under the working directory.
Environments ==
    { e \in [wd : WorkingDirectories, rt : BOOLEAN, fe : BOOLEAN,
             dom : DomStates, val : InitialValues \cup {NoValue}] :
        (e.dom = "absent") <=> (e.val = NoValue) }

\* ----------------------------------------------------------------- helpers
\* Line 13: the f-string f'file://{cwd}/src/taskpane/taskpane.html'.  Plain
\* concatenation: nothing in cwd is percent-encoded.
FilePathHttp(d) == "http://localhost" \o d \o TARGET_RELATIVE
FilePath(d) == "file://" \o d \o TARGET_RELATIVE

\* How the browser reads a URL handed to page.goto.
FILE_SCHEME == "file://"
IsFileUrl(url) ==
    /\ Len(url) >= Len(FILE_SCHEME)
    /\ SubSeq(url, 1, Len(FILE_SCHEME)) = FILE_SCHEME

\* Index of the first '#' or '?' of url, Len(url) + 1 when there is none.
CutIndex(url) ==
    LET hits == { i \in 1..Len(url) : SubSeq(url, i, i) \in {"#", "?"} }
    IN  IF hits = {} THEN Len(url) + 1
        ELSE CHOOSE i \in hits : \A j \in hits : i <= j

\* The file-system path a file URL names: what follows the scheme, up to the
\* query or fragment.
UrlPath(url) == SubSeq(url, Len(FILE_SCHEME) + 1, CutIndex(url) - 1)

\* page.goto(url) loads a document iff url names an existing file.
Loads(url) ==
    /\ IsFileUrl(url)
    /\ fileExists
    /\ UrlPath(url) = workingDirectory \o TARGET_RELATIVE

\* The element #baseUrlInput as the current page has it: a page that loaded
\* nothing (about:blank) has no such element.
PageDom == IF page = "loaded" THEN dom ELSE "absent"

\* A Python bool, as a value distinct from None.
PyBool(b) == IF b THEN "True" ELSE "False"

\* Locator.is_visible(): False when nothing matches or the match is not
\* rendered, True when the one match is rendered; a locator is strict, so
\* several matches raise.
IsVisibleRaises(d) == d = "duplicate"
IsVisibleResult(d) == d \in {"visible", "readonly"}

\* Locator.fill(): waits for the element to be visible, enabled and editable
\* and raises when it is not (or is not an input at all).
FillRaises(d) == d # "visible"

\* Fall-through successor of each statement of run().
NextStatementShotFirst(l) ==
    CASE l = "with"              -> "launch"
      [] l = "launch"            -> "new_page"
      [] l = "new_page"          -> "getcwd"
      [] l = "getcwd"            -> "filepath"
      [] l = "filepath"          -> "print_navigating"
      [] l = "print_navigating"  -> "goto"
      [] l = "goto"              -> "locator"
      [] l = "locator"           -> "is_visible"
      [] l = "print_visible"     -> "screenshot"
      [] l = "screenshot"        -> IF visible = "True" THEN "fill" ELSE "close"
      [] l = "fill"              -> "close"
      [] l = "print_not_visible" -> "screenshot"
      [] l = "close"             -> "exit_with"
      [] l = "exit_with"         -> "main_end"
      [] l = "main_end"          -> "done"

NextStatement(l) ==
    CASE l = "with"              -> "launch"
      [] l = "launch"            -> "new_page"
      [] l = "new_page"          -> "getcwd"
      [] l = "getcwd"            -> "filepath"
      [] l = "filepath"          -> "print_navigating"
      [] l = "print_navigating"  -> "goto"
      [] l = "goto"              -> "locator"
      [] l = "locator"           -> "is_visible"
      [] l = "print_visible"     -> "fill"
      [] l = "fill"              -> "screenshot"
      [] l = "print_not_visible" -> "screenshot"
      [] l = "screenshot"        -> "close"
      [] l = "close"             -> "exit_with"
      [] l = "exit_with"         -> "main_end"
      [] l = "main_end"          -> "done"

\* Source line of each statement.
LineOf(l) ==
    CASE l = "with"              -> 6
      [] l = "launch"            -> 7
      [] l = "new_page"          -> 8
      [] l = "getcwd"            -> 12
      [] l = "filepath"          -> 13
      [] l = "print_navigating"  -> 15
      [] l = "goto"              -> 16
      [] l = "locator"           -> 19
      [] l = "is_visible"        -> 20
      [] l = "print_visible"     -> 21
      [] l = "fill"              -> 23
      [] l = "print_not_visible" -> 25
      [] l = "screenshot"        -> 28
      [] l = "close"             -> 29

\* A statement returns normally: control falls through.
Return(l) ==
    /\ pc' = NextStatement(l)
    /\ trace' = Append(trace, l)
    /\ UNCHANGED <<exc, raisedAt>>

\* A statement raises: nothing in run() catches, control leaves the with
\* block through the context manager's __exit__.
Raise(l, kind) ==
    /\ pc' = "exit_with"
    /\ trace' = Append(trace, l)
    /\ exc' = kind
    /\ raisedAt' = l

\* ------------------------------------------------------------------- state
\* A fresh process: nothing launched, nothing printed, no locals bound.
FreshRun(e) ==
    /\ workingDirectory = e.wd
    /\ runtimeAvailable = e.rt
    /\ fileExists = e.fe
    /\ dom = e.dom
    /\ domValue = e.val
    /\ pc = "with"
    /\ cwd = None
    /\ filepath = None
    /\ base_url_input = None
    /\ visible = None
    /\ exc = NoExc
    /\ raisedAt = None
    /\ driver = "off"
    /\ browser = "none"
    /\ page = "none"
    /\ elemValue = NoValue
    /\ navigations = <<>>
    /\ fillAttempts = 0
    /\ stdout = <<>>
    /\ stderr = <<>>
    /\ exitCode = NoExit
    /\ trace = <<>>

Init ==
    /\ \E e \in Environments : FreshRun(e)
    /\ screenshotFile = NoFile
    /\ runs = 1

\* ----------------------------------------------------------------- actions
\* Line 6: with sync_playwright() as p -- __enter__ starts the driver.
EnterWith ==
    /\ pc = "with"
    /\ driver' = "running"
    /\ Return("with")
    /\ UNCHANGED <<env, locs, browser, page, elemValue, navigations,
                   fillAttempts, screenshotFile, stdout, stderr, exitCode, runs>>

\* Line 7: browser = p.chromium.launch(headless=True)
Launch ==
    /\ pc = "launch"
    /\ IF runtimeAvailable
         THEN browser' = "open" /\ Return("launch")
         ELSE browser' = browser /\ Raise("launch", "EnvironmentError")
    /\ UNCHANGED <<env, locs, driver, page, elemValue, navigations,
                   fillAttempts, screenshotFile, stdout, stderr, exitCode, runs>>

\* Line 8: page = browser.new_page()
NewPage ==
    /\ pc = "new_page"
    /\ browser = "open"
    /\ page' = "blank"
    /\ Return("new_page")
    /\ UNCHANGED <<env, locs, driver, browser, elemValue, navigations,
                   fillAttempts, screenshotFile, stdout, stderr, exitCode, runs>>

\* Line 12: cwd = os.getcwd()
GetCwd ==
    /\ pc = "getcwd"
    /\ cwd' = workingDirectory
    /\ Return("getcwd")
    /\ UNCHANGED <<env, filepath, base_url_input, visible, driver, browser,
                   page, elemValue, navigations, fillAttempts, screenshotFile,
                   stdout, stderr, exitCode, runs>>

\* Line 13: filepath = f'file://{cwd}/src/taskpane/taskpane.html'
BuildFilePath ==
    /\ pc = "filepath"
    /\ filepath' = FilePath(cwd)
    /\ Return("filepath")
    /\ UNCHANGED <<env, cwd, base_url_input, visible, driver, browser,
                   page, elemValue, navigations, fillAttempts, screenshotFile,
                   stdout, stderr, exitCode, runs>>

\* Line 15: print(f'Navigating to {filepath}')
PrintNavigatingSilent ==
    /\ pc = "print_navigating"
    /\ Return("print_navigating")
    /\ UNCHANGED <<env, locs, driver, browser, page, elemValue, navigations,
                   fillAttempts, screenshotFile, stdout, stderr, exitCode, runs>>

PrintNavigating ==
    /\ pc = "print_navigating"
    /\ stdout' = Append(stdout, "Navigating to " \o filepath)
    /\ Return("print_navigating")
    /\ UNCHANGED <<env, locs, driver, browser, page, elemValue, navigations,
                   fillAttempts, screenshotFile, stderr, exitCode, runs>>

\* Line 16: page.goto(filepath) -- swallowing variant, for comparison.
GotoSwallow ==
    /\ pc = "goto"
    /\ navigations' = Append(navigations, filepath)
    /\ IF Loads(filepath)
         THEN page' = "loaded" /\ elemValue' = domValue
         ELSE page' = page /\ elemValue' = elemValue
    /\ Return("goto")
    /\ UNCHANGED <<env, locs, driver, browser, fillAttempts, screenshotFile,
                   stdout, stderr, exitCode, runs>>

\* Line 16: page.goto(filepath)
Goto ==
    /\ pc = "goto"
    /\ navigations' = Append(navigations, filepath)
    /\ IF Loads(filepath)
         THEN page' = "loaded" /\ elemValue' = domValue /\ Return("goto")
         ELSE page' = page /\ elemValue' = elemValue
              /\ Raise("goto", "NavigationError")
    /\ UNCHANGED <<env, locs, driver, browser, fillAttempts, screenshotFile,
                   stdout, stderr, exitCode, runs>>

\* Line 19: base_url_input = page.locator('#baseUrlInput') -- lazy, no query.
Locator ==
    /\ pc = "locator"
    /\ base_url_input' = SELECTOR
    /\ Return("locator")
    /\ UNCHANGED <<env, cwd, filepath, visible, driver, browser, page,
                   elemValue, navigations, fillAttempts, screenshotFile,
                   stdout, stderr, exitCode, runs>>

\* Line 20: if base_url_input.is_visible() -- variant that tests for a match
\* (count() > 0) instead of visibility.
IsVisibleAnyMatch ==
    /\ pc = "is_visible"
    /\ visible' = PyBool(PageDom # "absent")
    /\ pc' = IF PageDom # "absent" THEN "print_visible" ELSE "print_not_visible"
    /\ trace' = Append(trace, "is_visible")
    /\ UNCHANGED <<exc, raisedAt>>
    /\ UNCHANGED <<env, cwd, filepath, base_url_input, driver, browser, page,
                   elemValue, navigations, fillAttempts, screenshotFile,
                   stdout, stderr, exitCode, runs>>

\* Line 20 -- variant that queries an element handle, which raises when
\* nothing matches.
IsVisibleRaiseOnAbsent ==
    /\ pc = "is_visible"
    /\ IF IsVisibleRaises(PageDom) \/ PageDom = "absent"
         THEN visible' = visible /\ Raise("is_visible", "StrictModeError")
         ELSE /\ visible' = PyBool(IsVisibleResult(PageDom))
              /\ pc' = IF IsVisibleResult(PageDom) THEN "print_visible"
                                                ELSE "print_not_visible"
              /\ trace' = Append(trace, "is_visible")
              /\ UNCHANGED <<exc, raisedAt>>
    /\ UNCHANGED <<env, cwd, filepath, base_url_input, driver, browser, page,
                   elemValue, navigations, fillAttempts, screenshotFile,
                   stdout, stderr, exitCode, runs>>

\* Line 20: if base_url_input.is_visible(): ... else: ...
IsVisible ==
    /\ pc = "is_visible"
    /\ IF IsVisibleRaises(PageDom)
         THEN visible' = visible /\ Raise("is_visible", "StrictModeError")
         ELSE /\ visible' = PyBool(IsVisibleResult(PageDom))
              /\ pc' = IF IsVisibleResult(PageDom) THEN "print_visible"
                                                ELSE "print_not_visible"
              /\ trace' = Append(trace, "is_visible")
              /\ UNCHANGED <<exc, raisedAt>>
    /\ UNCHANGED <<env, cwd, filepath, base_url_input, driver, browser, page,
                   elemValue, navigations, fillAttempts, screenshotFile,
                   stdout, stderr, exitCode, runs>>

\* Line 21: print('Base URL input is visible')
PrintVisible ==
    /\ pc = "print_visible"
    /\ stdout' = Append(stdout, MSG_VISIBLE)
    /\ Return("print_visible")
    /\ UNCHANGED <<env, locs, driver, browser, page, elemValue, navigations,
                   fillAttempts, screenshotFile, stderr, exitCode, runs>>

\* Line 23 -- variant that types a different text.
FillOtherValue ==
    /\ pc = "fill"
    /\ fillAttempts' = fillAttempts + 1
    /\ IF FillRaises(PageDom)
         THEN elemValue' = elemValue /\ Raise("fill", "TimeoutError")
         ELSE elemValue' = "https://api.gptbots.ai" /\ Return("fill")
    /\ UNCHANGED <<env, locs, driver, browser, page, navigations,
                   screenshotFile, stdout, stderr, exitCode, runs>>

\* Line 23: base_url_input.fill('https://api.gptbots.ai/v1')
Fill ==
    /\ pc = "fill"
    /\ fillAttempts' = fillAttempts + 1
    /\ IF FillRaises(PageDom)
         THEN elemValue' = elemValue /\ Raise("fill", "TimeoutError")
         ELSE elemValue' = FILL_VALUE /\ Return("fill")
    /\ UNCHANGED <<env, locs, driver, browser, page, navigations,
                   screenshotFile, stdout, stderr, exitCode, runs>>

\* Line 25 -- variant with the screenshot inside the if branch.
PrintNotVisibleSkipShot ==
    /\ pc = "print_not_visible"
    /\ stdout' = Append(stdout, MSG_NOT_VISIBLE)
    /\ pc' = "close"
    /\ trace' = Append(trace, "print_not_visible")
    /\ UNCHANGED <<exc, raisedAt>>
    /\ UNCHANGED <<env, locs, driver, browser, page, elemValue, navigations,
                   fillAttempts, screenshotFile, stderr, exitCode, runs>>

\* Line 25 -- variant that treats "not visible" as fatal.
PrintNotVisibleFatal ==
    /\ pc = "print_not_visible"
    /\ stdout' = Append(stdout, MSG_NOT_VISIBLE)
    /\ Raise("print_not_visible", "AssertionError")
    /\ UNCHANGED <<env, locs, driver, browser, page, elemValue, navigations,
                   fillAttempts, screenshotFile, stderr, exitCode, runs>>

\* Line 25: print('Base URL input NOT visible')
PrintNotVisible ==
    /\ pc = "print_not_visible"
    /\ stdout' = Append(stdout, MSG_NOT_VISIBLE)
    /\ Return("print_not_visible")
    /\ UNCHANGED <<env, locs, driver, browser, page, elemValue, navigations,
                   fillAttempts, screenshotFile, stderr, exitCode, runs>>

\* Line 28: page.screenshot(path='verification/taskpane_screenshot.png')
\* The file is created or overwritten with a picture of the page as it is now.
Screenshot ==
    /\ pc = "screenshot"
    /\ screenshotFile' = [exists |-> TRUE, path |-> SCREENSHOT_PATH,
                          run |-> runs, shows |-> elemValue]
    /\ Return("screenshot")
    /\ UNCHANGED <<env, locs, driver, browser, page, elemValue, navigations,
                   fillAttempts, stdout, stderr, exitCode, runs>>

\* Line 29: browser.close()
BrowserClose ==
    /\ pc = "close"
    /\ browser = "open"
    /\ browser' = "closed"
    /\ page' = "none"
    /\ Return("close")
    /\ UNCHANGED <<env, locs, driver, elemValue, navigations, fillAttempts,
                   screenshotFile, stdout, stderr, exitCode, runs>>

\* Line 6 -- variant without the with block (p = sync_playwright().start()):
\* nothing stops the driver when the body raises.
ExitWithNoStop ==
    /\ pc = "exit_with"
    /\ driver' = IF exc = NoExc THEN "stopped" ELSE driver
    /\ browser' = IF exc = NoExc /\ browser = "open" THEN "killed" ELSE browser
    /\ page' = IF exc = NoExc THEN "none" ELSE page
    /\ pc' = "main_end"
    /\ UNCHANGED <<env, locs, exc, raisedAt, elemValue, navigations,
                   fillAttempts, screenshotFile, stdout, stderr, exitCode,
                   trace, runs>>

\* Line 6: the end of the with block, reached by falling off line 29 or by an
\* exception. __exit__ stops the Playwright driver; the driver terminates
\* every browser it launched that is still running. The exception, if any,
\* is re-raised.
ExitWith ==
    /\ pc = "exit_with"
    /\ driver' = "stopped"
    /\ browser' = IF browser = "open" THEN "killed" ELSE browser
    /\ page' = "none"
    /\ pc' = "main_end"
    /\ UNCHANGED <<env, locs, exc, raisedAt, elemValue, navigations,
                   fillAttempts, screenshotFile, stdout, stderr, exitCode,
                   trace, runs>>

\* Lines 31-32: run() was called at module level. When it returns the
\* interpreter exits with status 0; when it raised, nothing catches the
\* exception: the interpreter prints the traceback on stderr and exits with 1.
MainEnd ==
    /\ pc = "main_end"
    /\ IF exc = NoExc
         THEN exitCode' = 0 /\ stderr' = stderr
         ELSE /\ exitCode' = 1
              /\ stderr' = stderr \o <<"Traceback (most recent call last):", exc>>
    /\ pc' = "done"
    /\ UNCHANGED <<env, locs, exc, raisedAt, driver, browser, page, elemValue,
                   navigations, fillAttempts, screenshotFile, stdout, trace, runs>>

\* The script is invoked again, in whatever environment it then finds; only
\* the file system (the screenshot) carries over from the previous process.
Invoke ==
    /\ pc = "done"
    /\ runs < MaxRuns
    /\ runs' = runs + 1
    /\ \E e \in Environments :
          /\ workingDirectory' = e.wd
          /\ runtimeAvailable' = e.rt
          /\ fileExists' = e.fe
          /\ dom' = e.dom
          /\ domValue' = e.val
    /\ pc' = "with"
    /\ cwd' = None
    /\ filepath' = None
    /\ base_url_input' = None
    /\ visible' = None
    /\ exc' = NoExc
    /\ raisedAt' = None
    /\ driver' = "off"
    /\ browser' = "none"
    /\ page' = "none"
    /\ elemValue' = NoValue
    /\ navigations' = <<>>
    /\ fillAttempts' = 0
    /\ stdout' = <<>>
    /\ stderr' = <<>>
    /\ exitCode' = NoExit
    /\ trace' = <<>>
    /\ UNCHANGED screenshotFile

Next ==
    \/ EnterWith
    \/ Launch
    \/ NewPage
    \/ GetCwd
    \/ BuildFilePath
    \/ PrintNavigating
    \/ Goto
    \/ Locator
    \/ IsVisible
    \/ PrintVisible
    \/ Fill
    \/ PrintNotVisible
    \/ Screenshot
    \/ BrowserClose
    \/ ExitWith
    \/ MainEnd
    \/ Invoke

Spec == Init /\ [][Next]_vars

\* --------------------------------------------------------------- vocabulary
Done == pc = "done"
Executed(l) == \E i \in 1..Len(trace) : trace[i] = l
Completed(l) == Executed(l) /\ raisedAt # l
Printed(m) == \E i \in 1..Len(stdout) : stdout[i] = m
\* The screenshot file was written by the current run.
ShotWritten == screenshotFile.exists /\ screenshotFile.run = runs
\* The URL of the target file, spelled out.
TargetUrl == "file://" \o workingDirectory \o "/src/taskpane/taskpane.html"
\* The target file can be loaded from the URL the script builds.
TargetLoads ==
    /\ fileExists
    /\ \A i \in 1..Len(workingDirectory) :
          SubSeq(workingDirectory, i, i) \notin {"#", "?"}
BranchStatements == {"is_visible", "print_visible", "fill", "print_not_visible"}

\* ==================================================================== C1
\* C1: on every exit path of run() after the browser was launched -- normal
\* completion with the element visible or not visible, or an exception from
\* navigation or a later step -- the browser is no longer running when the
\* run ends: closed by line 29 on the normal path, terminated with the
\* Playwright driver by the with block's exit on the exceptional paths.
C1_BrowserReleased ==
    /\ pc \in {"main_end", "done"} =>
          /\ browser # "open"
          /\ driver = "stopped"
          /\ Completed("launch") => browser \in {"closed", "killed"}
          /\ (Completed("launch") /\ exc = NoExc) => browser = "closed"
    /\ browser = "open" => driver = "running"

C1_Witness ==
    /\ Done
    /\ raisedAt = "goto"
    /\ browser = "killed"

C5_NotVisibleNoFill ==
    /\ (Done /\ Completed("goto") /\ dom \in {"absent", "hidden"}) =>
          /\ Printed("Base URL input NOT visible")
          /\ ~Printed("Base URL input is visible")
          /\ fillAttempts = 0
          /\ ~Executed("fill")
          /\ elemValue = domValue
          /\ ShotWritten
          /\ screenshotFile.shows = domValue
    /\ fillAttempts > 0 => visible = "True"
    /\ visible # "True" => elemValue \in {NoValue, domValue}

C5_Witness ==
    /\ Done
    /\ dom = "hidden"
    /\ domValue = "https://old.example/v0"
    /\ Printed("Base URL input NOT visible")
    /\ fillAttempts = 0
    /\ ShotWritten

\* ==================================================================== C6
\* C6: when the target file does not exist or cannot be loaded, the run ends
\* failed with the exception uncaught (traceback, exit status 1), this run
\* writes no screenshot and prints neither visibility message; with the
\* browser launched, the exception is the navigation error raised by goto.
C6_MissingTargetFails ==
    (Done /\ ~TargetLoads) =>
        /\ exitCode = 1
        /\ Len(stderr) > 0
        /\ ~ShotWritten
        /\ ~Printed("Base URL input is visible")
        /\ ~Printed("Base URL input NOT visible")
        /\ runtimeAvailable => (exc = "NavigationError" /\ raisedAt = "goto")

\* A failed navigation in a second run: the screenshot of the first run is
\* still on disk, untouched.
C6_Witness ==
    /\ Done
    /\ ~fileExists
    /\ raisedAt = "goto"
    /\ exitCode = 1
    /\ screenshotFile.exists
    /\ screenshotFile.run < runs

C8_Original ==
    Done => Len(stdout) >= 1

\* C8 amended: every run in which the browser was launched prints at least
\* one line, the 'Navigating to <url>' line, before it ends -- also when the
\* navigation then fails; a run whose launch fails prints nothing itself,
\* the only output being the interpreter's traceback on stderr.
C8_OutputOnceLaunched ==
    Done =>
        /\ Len(stdout) >= 1 <=> runtimeAvailable
        /\ runtimeAvailable =>
              stdout[1] = "Navigating to file://" \o workingDirectory
                              \o "/src/taskpane/taskpane.html"
        /\ ~runtimeAvailable => (stdout = <<>> /\ Len(stderr) > 0)
        /\ (Completed("goto") /\ exc = NoExc) => Len(stdout) = 2

C8_Witness ==
    /\ Done
    /\ raisedAt = "goto"
    /\ Len(stdout) = 1

\* ==================================================================== C9
\* C9: the only URL a run ever hands to page.goto is
\* file://<working directory>/src/taskpane/taskpane.html, at most once; it is
\* a file URL for every working directory, and the URL typed into the input
\* is never navigated to.
C9_OnlyLocalFileNavigation ==
    /\ Len(navigations) <= 1
    /\ \A i \in 1..Len(navigations) :
          /\ navigations[i] = TargetUrl
          /\ SubSeq(navigations[i], 1, 7) = "file://"
          /\ navigations[i] # "https://api.gptbots.ai/v1"
    /\ Executed("goto") <=> Len(navigations) = 1

C9_Witness ==
    /\ Done
    /\ Len(navigations) = 1
    /\ workingDirectory = "/tmp/my addin"
    /\ elemValue = "https://api.gptbots.ai/v1"

\* =================================================================== C10
\* The step of the specification's list that each statement belongs to.
SpecStep(l) ==
    CASE l \in {"getcwd", "filepath"}               -> 1
      [] l \in {"with", "launch", "new_page"}       -> 2
      [] l \in {"print_navigating", "goto"}         -> 3
      [] l = "locator"                              -> 4
      [] l \in BranchStatements                     -> 5
      [] l = "screenshot"                           -> 6
      [] l = "close"                                -> 7

\* C10 as stated: the steps run in the listed order 1..7, the target URL
\* being computed before the browser is started.
C10_Original ==
    \A i, j \in 1..Len(trace) : i < j => SpecStep(trace[i]) <= SpecStep(trace[j])

\* C10 amended: the statements of a run execute in source order, each at
\* most once and each after the previous one returned: (1) start the browser
\* and open a page, (2) compute the target URL from the working directory,
\* (3) report the URL and then navigate, (4) locate #baseUrlInput, (5)
\* query and report visibility and fill if visible, (6) take the screenshot,
\* (7) close the browser. The fill precedes the screenshot and the close is
\* the last statement of run() to execute.
C10_SourceOrder ==
    /\ \A i, j \in 1..Len(trace) : i < j => LineOf(trace[i]) < LineOf(trace[j])
    /\ \A i \in 1..Len(trace) : i < Len(trace) => raisedAt # trace[i]
    /\ Executed("getcwd") => Completed("new_page")
    /\ ~(Executed("print_visible") /\ Executed("print_not_visible"))
    /\ (Executed("screenshot") /\ visible = "True") => Completed("fill")
    /\ Executed("close") => trace[Len(trace)] = "close"
    /\ (Done /\ exc = NoExc) => Executed("close")

C10_Witness ==
    /\ Done
    /\ trace = <<"with", "launch", "new_page", "getcwd", "filepath",
                 "print_navigating", "goto", "locator", "is_visible",
                 "print_visible", "fill", "screenshot", "close">>

====
